---- MODULE Spec2Model ----
(***************************************************************************)
(* Model of pkg/kube/util.go of supergiant/control: node reconciliation    *)
(* (syncMachines), spot-capacity provisioning (createSpotInstance,         *)
(* createAwsSpotInstance and its detached goroutine) and spot price        *)
(* lookup (getSpotPrices, getAwsSpotPrices).                               *)
(***************************************************************************)
EXTENDS Integers, Sequences, FiniteSets, TLC

VARIABLES
    Masters,        \* k.Masters: node name -> Machine
    Nodes,          \* k.Nodes: node name -> Machine
    inventory,      \* instances of describeInstanceOutput, in loop order
    syncPc,         \* position of syncMachines: "idle", "loop", "returned"
    syncIdx,        \* index of the next instance the loop processes
    syncErr,        \* value returned by the last syncMachines call
    syncOutcome,    \* what the collaborators of the current call did
    passes,         \* number of syncMachines calls started so far
    nodesAtStart,   \* k.Nodes when the current call began
    mastersAtStart, \* k.Masters when the current call began
    lastNodes,      \* k.Nodes when the previous call returned
    lastErr,        \* value returned by the previous call
    config,         \* the steps.Config handed to the spot entry points
    req,            \* the SpotRequest of the last createSpotInstance call
    callPc,         \* createSpotInstance: "idle", "spawned", "returned"
    callRet,        \* value returned by the last createSpotInstance call
    ncalls,         \* number of createSpotInstance calls made so far
    clients,        \* number of amazon.GetEC2 calls made so far
    remote,         \* per call: the calls made on the EC2 client, in order
    tasks,          \* per call: the goroutine started at line 249
    crashed,        \* a goroutine panicked: the process is gone
    cloud,          \* the provider's instances, oldest first
    priceHistory,   \* SpotPriceHistory the provider holds
    pricePc,        \* getSpotPrices: "idle", "returned"
    priceRet,       \* values returned by getSpotPrices
    priceOutcome    \* what the collaborators of getSpotPrices did

syncVars == <<Masters, Nodes, inventory, syncPc, syncIdx, syncErr,
              syncOutcome, passes,
              nodesAtStart, mastersAtStart, lastNodes, lastErr>>

spotVars == <<config, req, callPc, callRet, ncalls, clients, remote, tasks,
              crashed, cloud>>

priceVars == <<priceHistory, pricePc, priceRet, priceOutcome>>

vars == <<syncVars, spotVars, priceVars>>

-----------------------------------------------------------------------------
(* Bounds *)

MaxInv == 2
MaxPasses == 2
MaxCalls == 1
MaxHist == 3

-----------------------------------------------------------------------------
(* Values *)

NoErr == "nil"
NotCalled == "<not called>"

\* A Go pointer: Nil, or Ptr(v) pointing at the value v.
Nil == <<>>
Ptr(v) == <<v>>
Deref(p) == p[1]

RunningCode == 16

\* clouds.TagNodeName, taken to be the key the goroutine writes at line 286.
TagNodeName == "Name"
TagClusterID == "clouds.TagClusterID"

MachineStateActive == "model.MachineStateActive"
MachineStateProvisioning == "model.MachineStateProvisioning"
RoleNode == "model.RoleNode"
RoleMaster == "model.RoleMaster"

KubeRegion == "us-east-1"
KubeID == "kube-1"

NodeNames == {"worker-a", "worker-b"}
PrivateIps == {"10.0.1.5", "10.0.1.6"}
MasterIp == "10.0.1.1"
PublicIp == "54.0.0.5"
InstanceType == "m4.large"
KnownSize == "t2.medium"

\* A model.Machine already recorded in the cluster before a pass.
KnownMachine(name, ip, role) ==
    [Name |-> name, PrivateIp |-> ip, PublicIp |-> "", Size |-> KnownSize,
     State |-> MachineStateProvisioning, Role |-> role, Region |-> KubeRegion]

\* The instance records DescribeInstances may return (ec2.Instance).
ClusterTag == [Key |-> Ptr(TagClusterID), Value |-> Ptr(KubeID)]

NameTag(n) == [Key |-> Ptr(TagNodeName), Value |-> Ptr(n)]

TagLists ==
    {<<ClusterTag>>}
      \cup {<<ClusterTag, NameTag(n)>> : n \in NodeNames}

MkInstance(ip, tags, state) ==
    [InstanceType |-> Ptr(InstanceType),
     PrivateIpAddress |-> ip,
     PublicIpAddress |-> IF ip = Ptr("10.0.1.5") THEN Ptr(PublicIp) ELSE Nil,
     Tags |-> tags,
     State |-> state]

RunningState == Ptr([Code |-> Ptr(RunningCode)])

NonRunningStates == {Nil, Ptr([Code |-> Nil]), Ptr([Code |-> Ptr(80)])}

Instances ==
    {MkInstance(ip, t, RunningState) :
        ip \in {Ptr(a) : a \in PrivateIps} \cup {Nil}, t \in TagLists}
      \cup {MkInstance(Ptr("10.0.1.5"), <<ClusterTag, NameTag("worker-a")>>, s) :
                s \in NonRunningStates}
      \cup {MkInstance(Ptr("10.0.1.6"), <<ClusterTag, NameTag("worker-b")>>, s) :
                s \in NonRunningStates}

Inventories == UNION {[1..n -> Instances] : n \in 0..MaxInv}

NoMachines == [n \in {} |-> KnownMachine(n, "", RoleNode)]

\* The cluster states a pass can start from: worker and master names are
\* disjoint, every Machine is stored under its own name.
MachineMaps(ips, role) ==
    UNION {{[n \in S |-> KnownMachine(n, f[n], role)] : f \in [S -> ips]} :
              S \in SUBSET NodeNames}

NodeMaps == MachineMaps(PrivateIps, RoleNode)

MasterMaps == MachineMaps({MasterIp, "10.0.1.5"}, RoleMaster)

-----------------------------------------------------------------------------
(* syncMachines *)

Range(f) == {f[x] : x \in DOMAIN f}

\* Lines 143-147: the value of the last tag whose key is the node-name key.
RECURSIVE NodeNameFromTags(_, _)
NodeNameFromTags(tags, name) ==
    IF tags = <<>> THEN name
    ELSE NodeNameFromTags(Tail(tags),
             IF Head(tags).Key # Nil /\ Deref(Head(tags).Key) = TagNodeName
             THEN Deref(Head(tags).Value) ELSE name)

\* NodeOf without the copy of the private IP (lines 139-141 dropped).
NodeOf_NoPrivateIp(instance) ==
    [Name |-> NodeNameFromTags(instance.Tags, ""),
     PrivateIp |-> "",
     PublicIp |-> IF instance.PublicIpAddress # Nil
                  THEN Deref(instance.PublicIpAddress) ELSE "",
     Size |-> Deref(instance.InstanceType),
     State |-> MachineStateActive,
     Role |-> RoleNode,
     Region |-> KubeRegion]

\* Lines 128-147: the Machine built for an instance.
NodeOf(instance) ==
    [Name |-> NodeNameFromTags(instance.Tags, ""),
     PrivateIp |-> IF instance.PrivateIpAddress # Nil
                   THEN Deref(instance.PrivateIpAddress) ELSE "",
     PublicIp |-> IF instance.PublicIpAddress # Nil
                  THEN Deref(instance.PublicIpAddress) ELSE "",
     Size |-> Deref(instance.InstanceType),
     State |-> MachineStateActive,
     Role |-> RoleNode,
     Region |-> KubeRegion]

\* IsFound looking the instance up by its node name instead of its IP.
IsFound_ByName(nodes, instance) ==
    NodeNameFromTags(instance.Tags, "") \in DOMAIN nodes

\* Lines 149-155.
IsFound(nodes, instance) ==
    \E n \in DOMAIN nodes :
        instance.PrivateIpAddress # Nil
          /\ nodes[n].PrivateIp = Deref(instance.PrivateIpAddress)

\* StateCodeOf taking an instance without a state for a running one.
StateCodeOf_DefaultRunning(instance) ==
    IF instance.State # Nil /\ Deref(instance.State).Code # Nil
    THEN Deref(Deref(instance.State).Code) ELSE RunningCode

\* Lines 157-161.
StateCodeOf(instance) ==
    IF instance.State # Nil /\ Deref(instance.State).Code # Nil
    THEN Deref(Deref(instance.State).Code) ELSE 0

\* ShouldAdd without the lookup in k.Masters.
ShouldAdd_IgnoresMasters(nodes, masters, instance) ==
    /\ ~IsFound(nodes, instance)
    /\ StateCodeOf(instance) = RunningCode

\* Line 164.
ShouldAdd(nodes, masters, instance) ==
    /\ ~IsFound(nodes, instance)
    /\ NodeOf(instance).Name \notin DOMAIN masters
    /\ StateCodeOf(instance) = RunningCode

\* Lines 128-167: one iteration of the loop over the instances.
ProcessInstance(nodes, masters, instance) ==
    IF ShouldAdd(nodes, masters, instance)
    THEN (NodeOf(instance).Name :> NodeOf(instance)) @@ nodes
    ELSE nodes

\* Lines 126-169: the whole loop over the instances, in their order.
RECURSIVE SyncLoop(_, _, _)
SyncLoop(nodes, masters, instances) ==
    IF instances = <<>> THEN nodes
    ELSE SyncLoop(ProcessInstance(nodes, masters, Head(instances)), masters,
                  Tail(instances))

SyncOutcomes == {"fill credentials fails", "GetEC2 fails",
                 "DescribeInstances fails", "ok"}

\* Lines 102-124: the error each early return hands back; NotCalled while
\* the call is still running.
SyncStartErr(outcome) ==
    CASE outcome = "fill credentials fails" ->
             "error fill cloud account credentials"
      [] outcome = "GetEC2 fails" -> "sgerrors.ErrInvalidCredentials"
      [] outcome = "DescribeInstances fails" -> "describe instances"
      [] OTHER -> NotCalled

\* SyncStartPc without the return at line 123.
SyncStartPc_NoReturnOnQueryError(outcome) ==
    IF outcome \in {"ok", "DescribeInstances fails"} THEN "loop" ELSE "returned"

\* Lines 102-124: a failing collaborator returns before the loop.
SyncStartPc(outcome) == IF outcome = "ok" THEN "loop" ELSE "returned"

\* Lines 100-124: the call up to the loop; the three early returns.
\* instances is what DescribeInstances answers when it succeeds.
SyncBegin(instances) ==
    /\ syncPc \in {"idle", "returned"}
    /\ passes < MaxPasses
    /\ passes' = passes + 1
    /\ nodesAtStart' = Nodes
    /\ mastersAtStart' = Masters
    /\ lastNodes' = IF syncPc = "returned" THEN Nodes ELSE lastNodes
    /\ lastErr' = IF syncPc = "returned" THEN syncErr ELSE lastErr
    /\ \E outcome \in SyncOutcomes :
         /\ syncOutcome' = outcome
         /\ syncErr' = SyncStartErr(outcome)
         /\ syncPc' = SyncStartPc(outcome)
         /\ inventory' = IF outcome = "ok" THEN instances ELSE inventory
    /\ syncIdx' = 1
    /\ UNCHANGED <<Masters, Nodes, spotVars, priceVars>>

\* A call against a provider whose instances do not change.
SyncStart == SyncBegin(inventory)

\* Lines 126-169: one instance of the inventory.
SyncStep ==
    /\ syncPc = "loop"
    /\ syncIdx <= Len(inventory)
    /\ Nodes' = ProcessInstance(Nodes, Masters, inventory[syncIdx])
    /\ syncIdx' = syncIdx + 1
    /\ UNCHANGED <<Masters, inventory, syncPc, syncErr, syncOutcome, passes,
                   nodesAtStart, mastersAtStart, lastNodes, lastErr,
                   spotVars, priceVars>>

\* Line 171.
SyncReturn ==
    /\ syncPc = "loop"
    /\ syncIdx > Len(inventory)
    /\ syncPc' = "returned"
    /\ syncErr' = NoErr
    /\ UNCHANGED <<Masters, Nodes, inventory, syncIdx, syncOutcome, passes,
                   nodesAtStart, mastersAtStart, lastNodes, lastErr,
                   spotVars, priceVars>>

-----------------------------------------------------------------------------
(* strconv.ParseInt(config.AWSConfig.VolumeSize, 10, 64), line 200 *)

Digits == <<"0", "1", "2", "3", "4", "5", "6", "7", "8", "9">>

IsDigit(c) == \E d \in 1..10 : Digits[d] = c

DigitVal(c) == (CHOOSE d \in 1..10 : Digits[d] = c) - 1

\* strconv.ParseUint with base 10: every byte has to be a decimal digit
\* (an underscore is accepted with base 0 only).
AllDigits(s) == \A i \in 1..Len(s) : IsDigit(s[i])

RECURSIVE StripZeros(_)
StripZeros(s) ==
    IF s # <<>> /\ Head(s) = "0" THEN StripZeros(Tail(s)) ELSE s

\* 2^63, the cutoff of a 64 bit signed integer, in decimal digits.
Cutoff64 == <<9, 2, 2, 3, 3, 7, 2, 0, 3, 6, 8, 5, 4, 7, 7, 5, 8, 0, 8>>

\* The decimal number s, without leading zeros, is less than 2^63.
RECURSIVE DigitsLess(_, _)
DigitsLess(s, t) ==
    IF s = <<>> THEN FALSE
    ELSE IF DigitVal(Head(s)) # Head(t) THEN DigitVal(Head(s)) < Head(t)
    ELSE DigitsLess(Tail(s), Tail(t))

BelowCutoff(s) ==
    LET n == StripZeros(s)
    IN \/ Len(n) < Len(Cutoff64)
       \/ Len(n) = Len(Cutoff64) /\ DigitsLess(n, Cutoff64)

AtCutoff(s) ==
    LET n == StripZeros(s)
    IN /\ Len(n) = Len(Cutoff64)
       /\ \A i \in 1..Len(n) : DigitVal(n[i]) = Cutoff64[i]

\* ParseInt_AcceptsPrefix stops at the first byte that is not a digit instead
\* of rejecting the string.
ParseInt_AcceptsPrefix(s) ==
    IF s = <<>> THEN [err |-> "ErrSyntax", neg |-> FALSE, un |-> <<>>]
    ELSE LET neg == Head(s) = "-"
             body == IF Head(s) \in {"+", "-"} THEN Tail(s) ELSE s
             n == IF \E i \in 1..Len(body) : ~IsDigit(body[i])
                  THEN SubSeq(body, 1,
                         (CHOOSE i \in 1..Len(body) :
                            /\ ~IsDigit(body[i])
                            /\ \A j \in 1..(i - 1) : IsDigit(body[j])) - 1)
                  ELSE body
         IN [err |-> NoErr, neg |-> neg, un |-> StripZeros(n)]

\* strconv.ParseInt(s, 10, 64): the error and the parsed number (sign and
\* magnitude in decimal digits).
ParseInt(s) ==
    IF s = <<>> THEN [err |-> "ErrSyntax", neg |-> FALSE, un |-> <<>>]
    ELSE LET neg == Head(s) = "-"
             body == IF Head(s) \in {"+", "-"} THEN Tail(s) ELSE s
         IN IF body = <<>> \/ ~AllDigits(body)
            THEN [err |-> "ErrSyntax", neg |-> FALSE, un |-> <<>>]
            ELSE IF BelowCutoff(body) \/ (neg /\ AtCutoff(body))
            THEN [err |-> NoErr, neg |-> neg, un |-> StripZeros(body)]
            ELSE [err |-> "ErrRange", neg |-> neg, un |-> <<>>]

-----------------------------------------------------------------------------
(* createSpotInstance, createAwsSpotInstance *)

AWS == "clouds.AWS"
Providers == {AWS, "clouds.DigitalOcean", "clouds.GCE"}

ErrUnsupportedProvider == "sgerrors.ErrUnsupportedProvider"

\* The texts config.AWSConfig.VolumeSize is drawn from.
VolumeSizes ==
    {<<"8", "0">>, <<"0", "8">>, <<"-", "8">>, <<"+", "8">>,
     <<>>, <<"8", "x">>, <<" ", "8">>, <<"8", "_", "0">>, <<"-">>,
     <<"8", ".", "0">>,
     <<"9", "2", "2", "3", "3", "7", "2", "0", "3", "6",
       "8", "5", "4", "7", "7", "5", "8", "0", "8">>}

KubeName == "kube"

Configs ==
    [Provider : Providers,
     VolumeSize : VolumeSizes,
     InstanceType : {"t2.medium"},
     KubeName : {KubeName},
     KubeID : {KubeID},
     IsMaster : BOOLEAN]

DefaultConfig ==
    [Provider |-> AWS, VolumeSize |-> <<"8", "0">>, InstanceType |-> "t2.medium",
     KubeName |-> KubeName, KubeID |-> KubeID, IsMaster |-> FALSE]

SpotRequests ==
    {[MachineType |-> "m4.large", MachineCount |-> 1],
     [MachineType |-> "c5.xlarge", MachineCount |-> 2]}

NoRequest == [MachineType |-> "", MachineCount |-> 0]

NoTask ==
    [pc |-> "none", err |-> NotCalled, requestIds |-> <<>>,
     spotRequests |-> <<>>, tagIdx |-> 0, cfg |-> DefaultConfig]

\* A call made on the EC2 client (svc).
RemoteCall(op, resources, tags, result) ==
    [op |-> op, resources |-> resources, tags |-> tags, result |-> result]

RequestId(call, i) == <<"sir", call, i>>
InstanceId(call, i) == <<"i", call, i>>

\* Lines 206-239: the IDs of result.SpotInstanceRequests, one per requested
\* machine.
SubmittedIds(call, r) == [i \in 1..r.MachineCount |-> Ptr(RequestId(call, i))]

\* Lines 249-254: the goroutine as started, before its first call; cfg is
\* what config holds at the go statement.
NewTask(call, r) ==
    [pc |-> "start", err |-> NoErr, requestIds |-> SubmittedIds(call, r),
     spotRequests |-> <<>>, tagIdx |-> 1,
     cfg |-> [config EXCEPT !.InstanceType = r.MachineType]]

\* SpawnedTask_Always starts the goroutine whatever the submission returned.
SpawnedTask_Always(submit, call, r) == NewTask(call, r)

\* Lines 239-249: the return on a failed submission precedes the go statement.
SpawnedTask(submit, call, r) ==
    IF submit = "fails" THEN NoTask ELSE NewTask(call, r)

\* IsSupported_Any lets every provider fall into the AWS case.
IsSupported_Any(provider) == TRUE

\* Lines 174-181 and 183-190: the provider switch.
IsSupported(provider) == provider = AWS

\* ReturnValue_Err returns the err variable the goroutine assigns to.
ReturnValue_Err(err) == err

\* Line 314: the literal nil, whatever err holds.
ReturnValue(err) == NoErr

SpotIdle ==
    /\ req = NoRequest
    /\ callPc = "idle"
    /\ callRet = NotCalled
    /\ ncalls = 0
    /\ clients = 0
    /\ remote = <<>>
    /\ tasks = <<>>
    /\ crashed = FALSE
    /\ cloud = <<>>

\* Lines 174-249: the synchronous part of a call, up to the go statement or
\* to the return of an error.
createSpotInstance ==
    /\ ~crashed
    /\ callPc \in {"idle", "returned"}
    /\ ncalls < MaxCalls
    /\ ncalls' = ncalls + 1
    /\ \E r \in SpotRequests, getEC2 \in {"ok", "fails"}, submit \in {"ok", "fails"} :
         /\ req' = r
         /\ IF ~IsSupported(config.Provider)
            THEN /\ callRet' = ErrUnsupportedProvider
                 /\ callPc' = "returned"
                 /\ remote' = Append(remote, <<>>)
                 /\ tasks' = Append(tasks, NoTask)
                 /\ UNCHANGED <<config, clients>>
            ELSE /\ clients' = clients + 1
                 /\ IF getEC2 = "fails"
                    THEN /\ callRet' = "get EC2 client"
                         /\ callPc' = "returned"
                         /\ remote' = Append(remote, <<>>)
                         /\ tasks' = Append(tasks, NoTask)
                         /\ UNCHANGED config
                    ELSE /\ config' = [config EXCEPT !.InstanceType = r.MachineType]
                         /\ IF ParseInt(config.VolumeSize).err # NoErr
                            THEN /\ callRet' = "parse volume size"
                                 /\ callPc' = "returned"
                                 /\ remote' = Append(remote, <<>>)
                                 /\ tasks' = Append(tasks, NoTask)
                            ELSE /\ remote' = Append(remote,
                                       <<RemoteCall("RequestSpotInstances", <<>>,
                                                    <<>>, submit)>>)
                                 /\ IF submit = "fails"
                                    THEN /\ callRet' = "request spot instance"
                                         /\ callPc' = "returned"
                                         /\ tasks' = Append(tasks,
                                                SpawnedTask(submit, ncalls + 1, r))
                                    ELSE /\ callRet' = NotCalled
                                         /\ callPc' = "spawned"
                                         /\ tasks' = Append(tasks,
                                                SpawnedTask(submit, ncalls + 1, r))
    /\ UNCHANGED <<crashed, cloud, syncVars, priceVars>>

\* Line 314: the return after the go statement.
createSpotInstanceReturn ==
    /\ ~crashed
    /\ callPc = "spawned"
    /\ callPc' = "returned"
    /\ callRet' = ReturnValue(tasks[ncalls].err)
    /\ UNCHANGED <<config, req, ncalls, clients, remote, tasks, crashed,
                   cloud, syncVars, priceVars>>

-----------------------------------------------------------------------------
(* The goroutine of createAwsSpotInstance, lines 249-312 *)

\* Line 261: the goroutine calls WaitUntilSpotInstanceRequestFulfilled and
\* blocks in it.
TaskCallWait(t) ==
    /\ ~crashed
    /\ tasks[t].pc = "start"
    /\ tasks' = [tasks EXCEPT ![t].pc = "waiting"]
    /\ remote' = [remote EXCEPT ![t] = Append(@,
                     RemoteCall("WaitUntilSpotInstanceRequestFulfilled",
                                tasks[t].requestIds, <<>>, "pending"))]
    /\ UNCHANGED <<config, req, callPc, callRet, ncalls, clients, crashed,
                   cloud, syncVars, priceVars>>

\* Lines 263-265: where the goroutine goes on after the wait.
AfterWait(result) == "describe"

\* Lines 261-265: the wait returns; its error is assigned to the err of the
\* enclosing function and logged.
TaskWaitReturns(t) ==
    /\ ~crashed
    /\ tasks[t].pc = "waiting"
    /\ \E result \in {"ok", "fails"} :
         /\ tasks' = [tasks EXCEPT ![t].pc = AfterWait(result),
                                   ![t].err = IF result = "ok" THEN NoErr
                                              ELSE "wait fails"]
         /\ remote' = [remote EXCEPT ![t][Len(remote[t])].result = result]
    /\ UNCHANGED <<config, req, callPc, callRet, ncalls, clients, crashed,
                   cloud, syncVars, priceVars>>

Fulfilled(t) ==
    \E i \in 1..Len(remote[t]) :
        /\ remote[t][i].op = "WaitUntilSpotInstanceRequestFulfilled"
        /\ remote[t][i].result = "ok"

\* The outputs DescribeSpotInstanceRequests can produce: nothing with an
\* error, else one entry per request; a request that is not fulfilled has no
\* instance ID.
DescribeOutputs(t) ==
    LET ids == tasks[t].requestIds
        outs == {[i \in 1..Len(ids) |->
                     [SpotInstanceRequestId |-> ids[i],
                      InstanceId |-> IF i \in S THEN Ptr(InstanceId(t, i)) ELSE Nil]] :
                    S \in SUBSET (1..Len(ids))}
    IN {[result |-> "fails", requests |-> <<>>]}
         \cup {[result |-> "ok", requests |-> o] :
                 o \in {x \in outs :
                          Fulfilled(t) => \A i \in 1..Len(x) : x[i].InstanceId # Nil}}

\* The private IP the provider gave the instance of request i of call t.
PrivateIpOf(t, i) == <<"10.0", t, i>>

HasInstance(request) == request.InstanceId # Nil

\* The instances the provider launched for the described requests, as it
\* holds them before any tag is written on them.
LaunchedInstances(t, requests) ==
    LET sel == SelectSeq(requests, HasInstance)
    IN [j \in 1..Len(sel) |->
          LET id == Deref(sel[j].InstanceId)
          IN [InstanceId |-> id,
              InstanceType |-> tasks[t].cfg.InstanceType,
              PrivateIpAddress |-> PrivateIpOf(t, id[3]),
              Tags |-> <<>>]]

\* Lines 267-271; a request described with an instance ID has its instance
\* at the provider.
TaskDescribe(t) ==
    /\ ~crashed
    /\ tasks[t].pc = "describe"
    /\ \E out \in DescribeOutputs(t) :
         /\ tasks' = [tasks EXCEPT ![t].pc = "tag",
                                   ![t].spotRequests = out.requests,
                                   ![t].tagIdx = 1]
         /\ remote' = [remote EXCEPT ![t] = Append(@,
                          RemoteCall("DescribeSpotInstanceRequests",
                                     tasks[t].requestIds, <<>>, out.result))]
         /\ cloud' = cloud \o LaunchedInstances(t, out.requests)
    /\ UNCHANGED <<config, req, callPc, callRet, ncalls, clients, crashed,
                   syncVars, priceVars>>

\* util.MakeRole.
MakeRole(isMaster) == IF isMaster THEN "master" ELSE "node"

\* util.MakeNodeName: cluster name, short random suffix and role.
MakeNodeName(name, suffix, isMaster) == <<name, suffix, MakeRole(isMaster)>>

\* Ec2Tags_OneSuffix takes the random suffix once for the whole loop.
Ec2Tags_OneSuffix(cfg, t, i) ==
    [KubernetesCluster |-> cfg.KubeName,
     ClusterID |-> cfg.KubeID,
     Name |-> MakeNodeName(cfg.KubeName, <<"uuid", t, 1>>, cfg.IsMaster),
     Role |-> MakeRole(cfg.IsMaster)]

\* Lines 276-294; uuid.New()[:4] is a fresh value per tag set. cfg is what
\* the goroutine reads through the config pointer.
Ec2Tags(cfg, t, i) ==
    [KubernetesCluster |-> cfg.KubeName,
     ClusterID |-> cfg.KubeID,
     Name |-> MakeNodeName(cfg.KubeName, <<"uuid", t, i>>, cfg.IsMaster),
     Role |-> MakeRole(cfg.IsMaster)]

\* Lines 276-294: the keys the four tags are written under.
TagList(ec2Tags) ==
    <<[Key |-> Ptr("KubernetesCluster"), Value |-> Ptr(ec2Tags.KubernetesCluster)],
      [Key |-> Ptr(TagClusterID), Value |-> Ptr(ec2Tags.ClusterID)],
      [Key |-> Ptr("Name"), Value |-> Ptr(ec2Tags.Name)],
      [Key |-> Ptr("Role"), Value |-> Ptr(ec2Tags.Role)]>>

\* The reads of config.Kube and config.IsMaster at lines 279-292 are not
\* ordered with a write the caller makes after the call returned: they see
\* the config as it is or as it was at the go statement.
SeenConfigs(t) == {config, tasks[t].cfg}

\* Line 306: the provider's instances once CreateTags succeeded on the
\* instance of request i of call t.
TaggedInstance(t, i, ec2Tags) ==
    [j \in 1..Len(cloud) |->
        IF cloud[j].InstanceId = InstanceId(t, i)
        THEN [cloud[j] EXCEPT !.Tags = TagList(ec2Tags)]
        ELSE cloud[j]]

\* Lines 274-311: one iteration of the loop over the described requests; the
\* log statement at line 301 dereferences the instance ID.
TaskTag(t) ==
    /\ ~crashed
    /\ tasks[t].pc = "tag"
    /\ tasks[t].tagIdx <= Len(tasks[t].spotRequests)
    /\ LET i == tasks[t].tagIdx
           instance == tasks[t].spotRequests[i]
       IN IF instance.InstanceId = Nil
          THEN /\ crashed' = TRUE
               /\ tasks' = [tasks EXCEPT ![t].pc = "panic"]
               /\ UNCHANGED <<remote, cloud>>
          ELSE /\ \E result \in {"ok", "fails"}, seen \in SeenConfigs(t) :
                    /\ remote' = [remote EXCEPT ![t] = Append(@,
                                  RemoteCall("CreateTags",
                                      <<instance.InstanceId,
                                        instance.SpotInstanceRequestId>>,
                                      <<Ec2Tags(seen, t, i)>>, result))]
                    /\ cloud' = IF result = "ok"
                                THEN TaggedInstance(t, i, Ec2Tags(seen, t, i))
                                ELSE cloud
               /\ tasks' = [tasks EXCEPT ![t].tagIdx = @ + 1]
               /\ UNCHANGED crashed
    /\ UNCHANGED <<config, req, callPc, callRet, ncalls, clients,
                   syncVars, priceVars>>

\* Line 312: the goroutine ends.
TaskDone(t) ==
    /\ ~crashed
    /\ tasks[t].pc = "tag"
    /\ tasks[t].tagIdx > Len(tasks[t].spotRequests)
    /\ tasks' = [tasks EXCEPT ![t].pc = "done"]
    /\ UNCHANGED <<config, req, callPc, callRet, ncalls, clients, remote,
                   crashed, cloud, syncVars, priceVars>>

TaskStep ==
    \E t \in 1..Len(tasks) :
        \/ TaskCallWait(t)
        \/ TaskWaitReturns(t)
        \/ TaskDescribe(t)
        \/ TaskTag(t)
        \/ TaskDone(t)

-----------------------------------------------------------------------------
(* getSpotPrices, getAwsSpotPrices *)

UpperCase == <<"A", "I", "L", "N", "U", "X", "W", "D", "O", "S", "M", "Z", "V", "P", "C">>
LowerCase == <<"a", "i", "l", "n", "u", "x", "w", "d", "o", "s", "m", "z", "v", "p", "c">>

\* unicode.SimpleFold on the letters of the descriptions: a letter and its
\* other case fold together, every other character folds to itself only.
FoldsTo(c, d) ==
    \/ c = d
    \/ \E i \in 1..Len(UpperCase) :
          \/ c = UpperCase[i] /\ d = LowerCase[i]
          \/ c = LowerCase[i] /\ d = UpperCase[i]

\* EqualFold_CaseSensitive compares the descriptions as they are.
EqualFold_CaseSensitive(s, t) == s = t

\* strings.EqualFold, line 335.
EqualFold(s, t) ==
    /\ Len(s) = Len(t)
    /\ \A i \in 1..Len(s) : FoldsTo(s[i], t[i])

LinuxUNIX == <<"L", "i", "n", "u", "x", "/", "U", "N", "I", "X">>

ProductDescriptions ==
    {LinuxUNIX,
     <<"l", "i", "n", "u", "x", "/", "u", "n", "i", "x">>,
     <<"L", "I", "N", "U", "X", "/", "u", "n", "i", "x">>,
     <<"L", "i", "n", "u", "x", "/", "U", "N", "I", "X", " ", "(", "V", "P", "C", ")">>,
     <<"W", "i", "n", "d", "o", "w", "s">>}

SpotPrices == {"0.0100", "0.0250"}

PriceEntries ==
    [ProductDescription : {Ptr(d) : d \in ProductDescriptions},
     SpotPrice : {Ptr(q) : q \in SpotPrices}]

Histories(n) == UNION {[1..k -> PriceEntries] : k \in 0..n}

\* Lines 332-338: the loop over prices.SpotPriceHistory.
RECURSIVE FilterPrices(_, _)
FilterPrices(history, spotPrices) ==
    IF history = <<>> THEN spotPrices
    ELSE FilterPrices(Tail(history),
             IF EqualFold(Deref(Head(history).ProductDescription), LinuxUNIX)
             THEN Append(spotPrices, Deref(Head(history).SpotPrice))
             ELSE spotPrices)

\* Line 331: the output of DescribeSpotPriceHistory; its error is dropped,
\* the SDK hands back an empty output with it.
DescribedHistory(describe) == IF describe = "ok" THEN priceHistory ELSE <<>>

PriceIdle ==
    /\ pricePc = "idle"
    /\ priceRet = [prices |-> <<>>, err |-> NotCalled]
    /\ priceOutcome = [getEC2 |-> NotCalled, describe |-> NotCalled]

\* Lines 183-190 and 317-341.
getSpotPrices ==
    /\ ~crashed
    /\ pricePc = "idle"
    /\ pricePc' = "returned"
    /\ \E getEC2 \in {"ok", "fails"}, describe \in {"ok", "fails"} :
         IF ~IsSupported(config.Provider)
         THEN /\ priceRet' = [prices |-> <<>>, err |-> ErrUnsupportedProvider]
              /\ priceOutcome' = [getEC2 |-> NotCalled, describe |-> NotCalled]
              /\ UNCHANGED clients
         ELSE /\ clients' = clients + 1
              /\ IF getEC2 = "fails"
                 THEN /\ priceRet' = [prices |-> <<>>, err |-> "get EC2 client"]
                      /\ priceOutcome' = [getEC2 |-> getEC2, describe |-> NotCalled]
                 ELSE /\ priceRet' = [prices |-> FilterPrices(DescribedHistory(describe), <<>>),
                                      err |-> NoErr]
                      /\ priceOutcome' = [getEC2 |-> getEC2, describe |-> describe]
    /\ UNCHANGED <<priceHistory, config, req, callPc, callRet, ncalls, remote,
                   tasks, crashed, cloud, syncVars>>

InitSync ==
    /\ Masters \in MasterMaps
    /\ Nodes \in NodeMaps
    /\ DOMAIN Masters \cap DOMAIN Nodes = {}
    /\ inventory \in Inventories
    /\ syncPc = "idle"
    /\ syncIdx = 1
    /\ syncErr = NotCalled
    /\ syncOutcome = NotCalled
    /\ passes = 0
    /\ nodesAtStart = Nodes
    /\ mastersAtStart = Masters
    /\ lastNodes = Nodes
    /\ lastErr = NotCalled
    /\ SpotIdle
    /\ config = DefaultConfig
    /\ PriceIdle
    /\ priceHistory = <<>>

NextSync == SyncStart \/ SyncStep \/ SyncReturn

SpecSync == InitSync /\ [][NextSync]_vars

SyncIdle ==
    /\ Masters = NoMachines
    /\ Nodes = NoMachines
    /\ inventory = <<>>
    /\ syncPc = "idle"
    /\ syncIdx = 1
    /\ syncErr = NotCalled
    /\ syncOutcome = NotCalled
    /\ passes = 0
    /\ nodesAtStart = NoMachines
    /\ mastersAtStart = NoMachines
    /\ lastNodes = NoMachines
    /\ lastErr = NotCalled

\* The workflow engine provisions spot capacity and looks up prices.
InitSpot ==
    /\ SyncIdle
    /\ SpotIdle
    /\ config \in Configs
    /\ PriceIdle
    /\ priceHistory \in Histories(1)

NextSpot ==
    \/ createSpotInstance
    \/ createSpotInstanceReturn
    \/ TaskStep
    \/ getSpotPrices

SpecSpot == InitSpot /\ [][NextSpot]_vars

\* The workflow engine looks up prices only.
InitPrice ==
    /\ SyncIdle
    /\ SpotIdle
    /\ config \in {c \in Configs : c.VolumeSize = <<"8", "0">>}
    /\ PriceIdle
    /\ priceHistory \in Histories(MaxHist)

NextPrice == getSpotPrices

SpecPrice == InitPrice /\ [][NextPrice]_vars

-----------------------------------------------------------------------------
(* Properties of syncMachines *)

\* The instance the loop is about to process.
CurrentInstance == inventory[syncIdx]

\* The instance the loop processed last.
ProcessedInstance == inventory[syncIdx - 1]

HasNameTag(instance) ==
    \E i \in 1..Len(instance.Tags) : instance.Tags[i] \in {NameTag(n) : n \in NodeNames}

\* The node name an instance of the inventory carries ("" without a tag).
NameTagOf(instance) ==
    IF HasNameTag(instance)
    THEN CHOOSE n \in NodeNames : \E i \in 1..Len(instance.Tags) : instance.Tags[i] = NameTag(n)
    ELSE ""

IsRunning(instance) ==
    instance.State \in {Ptr([Code |-> Ptr(16)])}

IpIn(nodes, instance) ==
    /\ instance.PrivateIpAddress # Nil
    /\ \E m \in Range(nodes) : Ptr(m.PrivateIp) = instance.PrivateIpAddress

WorkerA == MkInstance(Ptr("10.0.1.5"), <<ClusterTag, NameTag("worker-a")>>, RunningState)

TwoPassesDone ==
    /\ syncPc = "returned"
    /\ passes >= 2
    /\ syncErr = NoErr
    /\ lastErr = NoErr

\* C1: two successful passes in a row over the same inventory: the second
\* pass leaves Nodes as the first pass left it.
C1_IdempotentReconcile == TwoPassesDone => Nodes = lastNodes

\* C2: a pass never inserts an instance whose node name is a key of Masters,
\* and a name that is in Masters and not in Nodes when a pass begins is not
\* in Nodes afterwards.
C2_RoleExclusivity ==
    /\ [][(SyncStep /\ NameTagOf(CurrentInstance) \in DOMAIN Masters)
            => Nodes' = Nodes]_vars
    /\ [](\A n \in DOMAIN mastersAtStart :
            n \notin DOMAIN nodesAtStart => n \notin DOMAIN Nodes)

\* A pass over the running instance worker-a, already a master, has returned
\* and Nodes, empty before, is empty.
C2_Witness ==
    /\ syncPc = "returned"
    /\ syncErr = NoErr
    /\ inventory = <<WorkerA>>
    /\ "worker-a" \in DOMAIN Masters
    /\ nodesAtStart = NoMachines
    /\ Nodes = NoMachines

\* C3: processing an instance whose state code is not 16, or that has no
\* state or no state code, changes nothing in Nodes.
C3_RunningStateGate ==
    [][(SyncStep /\ ~IsRunning(CurrentInstance)) => Nodes' = Nodes]_vars

\* The loop has processed an instance that is not running, whose private IP
\* is not in Nodes and whose name is not in Masters.
C3_Witness ==
    /\ syncPc = "loop"
    /\ syncIdx > 1
    /\ ~IsRunning(ProcessedInstance)
    /\ ~IpIn(Nodes, ProcessedInstance)
    /\ NameTagOf(ProcessedInstance) \notin DOMAIN Masters

\* C4: an instance whose private IP is the private IP of a Machine that was
\* in Nodes when the pass began gets no new Nodes entry in that pass.
C4_MergeOnceByIp ==
    [][(SyncStep /\ IpIn(nodesAtStart, CurrentInstance)) => Nodes' = Nodes]_vars

\* The fields the claim C8 names, for the instance merged under its name.
MergedAs(nodes, instance) ==
    /\ NameTagOf(instance) \in DOMAIN nodes
    /\ LET m == nodes[NameTagOf(instance)]
       IN /\ Ptr(m.PrivateIp) = instance.PrivateIpAddress
          /\ m.Role = RoleNode
          /\ m.State = MachineStateActive
          /\ Ptr(m.Size) = instance.InstanceType
          /\ m.Region = KubeRegion

\* C8: processing a running instance whose private IP is not in Nodes and
\* whose name is not in Masters stores, under its name, a Machine with its
\* private IP, role worker, state active, its type as size and the cluster's
\* region; the single instance worker-a against empty maps yields exactly
\* Nodes = {worker-a}.
C8_MergeNewRunningWorker ==
    /\ [][(/\ SyncStep
            /\ IsRunning(CurrentInstance)
            /\ HasNameTag(CurrentInstance)
            /\ CurrentInstance.PrivateIpAddress # Nil
            /\ ~IpIn(Nodes, CurrentInstance)
            /\ NameTagOf(CurrentInstance) \notin DOMAIN Masters)
           => MergedAs(Nodes', CurrentInstance)]_vars
    /\ []((/\ syncPc = "returned"
           /\ syncErr = NoErr
           /\ inventory = <<WorkerA>>
           /\ nodesAtStart = NoMachines
           /\ Masters = NoMachines)
          => (DOMAIN Nodes = {"worker-a"} /\ MergedAs(Nodes, WorkerA)))

\* The pass over the single running instance worker-a, started from empty
\* maps, has returned with worker-a merged.
C8_Witness ==
    /\ syncPc = "returned"
    /\ syncErr = NoErr
    /\ inventory = <<WorkerA>>
    /\ nodesAtStart = NoMachines
    /\ Masters = NoMachines
    /\ DOMAIN Nodes = {"worker-a"}
    /\ Nodes["worker-a"].PrivateIp = "10.0.1.5"

SyncFailed ==
    syncOutcome \in {"fill credentials fails", "GetEC2 fails",
                     "DescribeInstances fails"}

\* C9: when filling the credentials, building the client or the inventory
\* query fails, the call has returned an error and Masters and Nodes are as
\* they were when it began.
C9_FailureLeavesClusterUntouched ==
    SyncFailed =>
        /\ syncPc = "returned"
        /\ syncErr \notin {NoErr, NotCalled}
        /\ Nodes = nodesAtStart
        /\ Masters = mastersAtStart

\* The inventory query of a pass over a non-empty inventory with a running
\* unknown instance has failed.
C9_Witness ==
    /\ syncOutcome = "DescribeInstances fails"
    /\ syncPc = "returned"
    /\ Len(inventory) > 0
    /\ \E i \in 1..Len(inventory) : ShouldAdd(Nodes, Masters, inventory[i])

-----------------------------------------------------------------------------
(* Properties of createSpotInstance *)

SubmitSucceeded(c) ==
    /\ remote[c] # <<>>
    /\ remote[c][1].op = "RequestSpotInstances"
    /\ remote[c][1].result = "ok"

\* C5: a call whose submission succeeded can return while its goroutine has
\* not finished, returns nil, and what it returned is not changed by any
\* later step of the goroutine.
C5_DispatchOnly ==
    /\ []((ncalls > 0 /\ SubmitSucceeded(ncalls)) =>
            /\ callPc = "returned" => callRet = NoErr
            /\ (callPc = "spawned" /\ ~crashed) => ENABLED createSpotInstanceReturn)
    /\ [][(callPc = "returned" /\ TaskStep) => callRet' = callRet]_vars

\* The call has returned nil while its goroutine is blocked in the wait for
\* fulfillment.
C5_Witness ==
    /\ callPc = "returned"
    /\ callRet = NoErr
    /\ tasks[ncalls].pc = "waiting"

DecimalDigits == {"0", "1", "2", "3", "4", "5", "6", "7", "8", "9"}

\* s is an optional sign followed by one or more decimal digits.
ValidDecimal(s) ==
    LET body == IF s # <<>> /\ s[1] \in {"+", "-"} THEN Tail(s) ELSE s
    IN /\ body # <<>>
       /\ \A i \in 1..Len(body) : body[i] \in DecimalDigits

\* C6: with a volume size that is not a base-10 integer a call returns an
\* error, makes no call on the EC2 client and starts no goroutine.
C6_VolumeSizeValidation ==
    (ncalls > 0 /\ ~ValidDecimal(config.VolumeSize)) =>
        /\ callPc = "returned"
        /\ callRet \notin {NoErr, NotCalled}
        /\ \A c \in 1..ncalls : remote[c] = <<>> /\ tasks[c] = NoTask

\* A call on AWS, with a client built, has failed on the volume size "8x".
C6_Witness ==
    /\ ncalls > 0
    /\ config.Provider = AWS
    /\ config.VolumeSize = <<"8", "x">>
    /\ clients > 0
    /\ callRet = "parse volume size"

\* C7: with a provider other than AWS both entry points return
\* ErrUnsupportedProvider, no client is built and no remote call is made.
C7_ProviderGating ==
    config.Provider # AWS =>
        /\ clients = 0
        /\ callPc # "spawned"
        /\ callPc = "returned" => callRet = ErrUnsupportedProvider
        /\ \A c \in 1..ncalls : remote[c] = <<>> /\ tasks[c] = NoTask
        /\ pricePc = "returned" =>
              /\ priceRet = [prices |-> <<>>, err |-> ErrUnsupportedProvider]
              /\ priceOutcome.describe = NotCalled

\* Both entry points have returned for a provider other than AWS.
C7_Witness ==
    /\ config.Provider # AWS
    /\ callPc = "returned"
    /\ pricePc = "returned"

-----------------------------------------------------------------------------
(* Properties of getSpotPrices *)

LowerOf(c) ==
    IF \E i \in 1..Len(UpperCase) : UpperCase[i] = c
    THEN LowerCase[CHOOSE i \in 1..Len(UpperCase) : UpperCase[i] = c]
    ELSE c

IsLinuxUnixIgnoringCase(entry) ==
    LET d == Deref(entry.ProductDescription)
    IN [i \in 1..Len(d) |-> LowerOf(d[i])]
         = <<"l", "i", "n", "u", "x", "/", "u", "n", "i", "x">>

\* The prices of the Linux/UNIX entries of a response, in its order.
LinuxPrices(response) ==
    LET sel == SelectSeq(response, IsLinuxUnixIgnoringCase)
    IN [k \in 1..Len(sel) |-> Deref(sel[k].SpotPrice)]

\* C10: on AWS, with a client, getSpotPrices returns no error and exactly the
\* prices of the entries of the response whose description is Linux/UNIX
\* ignoring case, in the order of the response; nothing for an empty history.
C10_PricingFilter ==
    (pricePc = "returned" /\ priceOutcome.getEC2 = "ok") =>
        /\ priceRet.err = NoErr
        /\ priceOutcome.describe = "ok" => priceRet.prices = LinuxPrices(priceHistory)
        /\ priceOutcome.describe = "fails" => priceRet.prices = <<>>
        /\ priceHistory = <<>> => priceRet.prices = <<>>

\* A response of three entries, a lower-case Linux/UNIX one, a Windows one
\* and a Linux/UNIX one, has been filtered to two prices.
C10_Witness ==
    /\ pricePc = "returned"
    /\ priceOutcome.describe = "ok"
    /\ Len(priceHistory) = 3
    /\ Deref(priceHistory[1].ProductDescription) # LinuxUNIX
    /\ IsLinuxUnixIgnoringCase(priceHistory[1])
    /\ ~IsLinuxUnixIgnoringCase(priceHistory[2])
    /\ priceHistory[3] = [ProductDescription |-> Ptr(LinuxUNIX), SpotPrice |-> Ptr("0.0250")]
    /\ priceRet.prices = <<"0.0100", "0.0250">>

-----------------------------------------------------------------------------
(* Further properties of syncMachines *)

\* C11: every entry that is in Nodes when a pass begins is in Nodes, with the
\* same Machine, during and after the pass.
C11_AdditiveOnly ==
    \A n \in DOMAIN nodesAtStart :
        n \in DOMAIN Nodes /\ Nodes[n] = nodesAtStart[n]

MissingIdentity(instance) ==
    ~HasNameTag(instance) \/ instance.PrivateIpAddress = Nil

\* C12: processing a running instance without a node-name tag or without a
\* private IP changes nothing in Nodes, and Nodes never has an entry under
\* the empty name.
C12_MissingIdentitySkipped ==
    /\ [][(SyncStep /\ IsRunning(CurrentInstance)
             /\ MissingIdentity(CurrentInstance)) => Nodes' = Nodes]_vars
    /\ []("" \notin DOMAIN Nodes)

\* No two Machines of nodes share a non-empty private IP.
UniqueIps(nodes) ==
    \A n1, n2 \in DOMAIN nodes :
        (n1 # n2 /\ nodes[n1].PrivateIp # "")
            => nodes[n1].PrivateIp # nodes[n2].PrivateIp

\* C18: a step of a pass keeps the non-empty private IPs of Nodes distinct,
\* and so does every pass, whatever the inventory.
C18_UniquePrivateIps ==
    /\ [][UniqueIps(Nodes) => UniqueIps(Nodes')]_vars
    /\ [](UniqueIps(nodesAtStart) => UniqueIps(Nodes))

\* A pass over two running instances that report the same private IP under
\* two names, unknown when it began, has returned with one of them merged.
C18_Witness ==
    /\ syncPc = "returned"
    /\ syncErr = NoErr
    /\ Len(inventory) = 2
    /\ IsRunning(inventory[1]) /\ IsRunning(inventory[2])
    /\ inventory[1].PrivateIpAddress = inventory[2].PrivateIpAddress
    /\ HasNameTag(inventory[1]) /\ HasNameTag(inventory[2])
    /\ NameTagOf(inventory[1]) # NameTagOf(inventory[2])
    /\ ~IpIn(nodesAtStart, inventory[1])
    /\ UniqueIps(nodesAtStart)
    /\ IpIn(Nodes, inventory[1])
    /\ Nodes # nodesAtStart

\* The instances of the inventory in the order p.
Permuted(p) == [i \in 1..Len(inventory) |-> inventory[p[i]]]

\* C19: the Nodes a successful pass ends with is the Nodes a pass from the
\* same cluster state over any permutation of the inventory ends with.
C19_OrderIndependent ==
    (syncPc = "returned" /\ syncErr = NoErr) =>
        \A p \in Permutations(1..Len(inventory)) :
            SyncLoop(nodesAtStart, mastersAtStart, Permuted(p)) = Nodes

-----------------------------------------------------------------------------
(* Further properties of createSpotInstance and its goroutine *)

TaskOps == {"WaitUntilSpotInstanceRequestFulfilled",
            "DescribeSpotInstanceRequests", "CreateTags"}

\* The positions of the calls op in the log of call c.
CallsOf(c, op) == {k \in 1..Len(remote[c]) : remote[c][k].op = op}

SyncErrors == {ErrUnsupportedProvider, "get EC2 client", "parse volume size",
               "request spot instance"}

\* C13: a call has a goroutine exactly when its submission succeeded, and the
\* goroutine waits once; a call that fails (provider, client, volume size,
\* submission) returns its error and no wait, describe or tag call is ever
\* made for it.
C13_TaskOnlyAfterSubmission ==
    \A c \in 1..ncalls :
        /\ tasks[c] # NoTask <=> SubmitSucceeded(c)
        /\ Cardinality(CallsOf(c, "WaitUntilSpotInstanceRequestFulfilled")) <= 1
        /\ ~SubmitSucceeded(c) =>
              /\ \A k \in 1..Len(remote[c]) : remote[c][k].op \notin TaskOps
              /\ c = ncalls => (callPc = "returned" /\ callRet \in SyncErrors)
        /\ (c = ncalls /\ callRet \in SyncErrors) => ~SubmitSucceeded(c)

\* The submission of a call has failed: the call returned the error and has
\* no goroutine.
C13_Witness ==
    /\ ncalls > 0
    /\ callPc = "returned"
    /\ callRet = "request spot instance"
    /\ remote[ncalls] # <<>>
    /\ remote[ncalls][1].result = "fails"
    /\ tasks[ncalls] = NoTask

\* C14: in the log of a goroutine the wait precedes the describe call, the
\* describe call precedes the tag calls, and a describe or tag call is made
\* only after the wait returned success.
C14_TagOnlyAfterFulfillment ==
    \A t \in 1..Len(remote) :
        \A k \in 1..Len(remote[t]) :
            /\ remote[t][k].op = "DescribeSpotInstanceRequests" =>
                  \E j \in 1..(k - 1) :
                     /\ remote[t][j].op = "WaitUntilSpotInstanceRequestFulfilled"
                     /\ remote[t][j].result = "ok"
            /\ remote[t][k].op = "CreateTags" =>
                  /\ \E j \in 1..(k - 1) :
                        remote[t][j].op = "DescribeSpotInstanceRequests"
                  /\ \E j \in 1..(k - 1) :
                        /\ remote[t][j].op = "WaitUntilSpotInstanceRequestFulfilled"
                        /\ remote[t][j].result = "ok"

\* The request of a tag call has its own tag call, on its two resources.
TaggedOnce(t, i) ==
    LET r == tasks[t].spotRequests[i]
    IN Cardinality({k \in CallsOf(t, "CreateTags") :
            /\ Len(remote[t][k].resources) = 2
            /\ {remote[t][k].resources[1], remote[t][k].resources[2]}
                  = {r.InstanceId, r.SpotInstanceRequestId}}) = 1

\* C15: a goroutine that has ended has issued, for every request the describe
\* call returned, one tag call on the request and its instance, whatever the
\* results of the tag calls before.
C15_IndependentTagging ==
    \A t \in 1..Len(tasks) :
        tasks[t].pc \in {"done", "panic"} =>
            /\ \A i \in 1..Len(tasks[t].spotRequests) : TaggedOnce(t, i)
            /\ Cardinality(CallsOf(t, "CreateTags")) = Len(tasks[t].spotRequests)

\* C17: a call leaves every field of the config as it was.
C17_ConfigReadOnly == [][createSpotInstance => config' = config]_vars

-----------------------------------------------------------------------------
(* The caller of createSpotInstance between its calls *)

\* The caller reuses the config it handed to a call that has returned: it
\* flips the master/worker flag or points the config at another cluster.
CallerChangesConfig ==
    /\ ~crashed
    /\ callPc = "returned"
    /\ \E c \in {[config EXCEPT !.IsMaster = ~@],
                 [config EXCEPT !.KubeName = "kube-2", !.KubeID = "kube-2-id"],
                 [config EXCEPT !.KubeName = KubeName, !.KubeID = KubeID]} :
         /\ c # config
         /\ config' = c
    /\ UNCHANGED <<req, callPc, callRet, ncalls, clients, remote, tasks,
                   crashed, cloud, syncVars, priceVars>>

InitRace ==
    /\ SyncIdle
    /\ SpotIdle
    /\ config \in {c \in Configs : c.Provider = AWS /\ c.VolumeSize = <<"8", "0">>}
    /\ PriceIdle
    /\ priceHistory = <<>>

NextRace ==
    \/ createSpotInstance
    \/ createSpotInstanceReturn
    \/ TaskStep
    \/ CallerChangesConfig

SpecRace == InitRace /\ [][NextRace]_vars

\* C20: every tag set a goroutine applied carries the cluster name, the
\* cluster ID and the role (also as role part of the node name) the config
\* held when the goroutine's call was made.
C20_TagsFromConfigAtCall ==
    \A t \in 1..Len(remote) :
        \A k \in CallsOf(t, "CreateTags") :
            LET applied == remote[t][k].tags[1]
                atCall == tasks[t].cfg
            IN /\ applied.KubernetesCluster = atCall.KubeName
               /\ applied.ClusterID = atCall.KubeID
               /\ applied.Role = MakeRole(atCall.IsMaster)
               /\ applied.Name[3] = MakeRole(atCall.IsMaster)

-----------------------------------------------------------------------------
(* Provisioning followed by reconciliation *)

\* Lines 113-120: the filter on the cluster-ID tag, with k.ID.
HasClusterTag(instance) ==
    \E j \in 1..Len(instance.Tags) :
        /\ instance.Tags[j].Key = Ptr(TagClusterID)
        /\ instance.Tags[j].Value = Ptr(KubeID)

\* The state codes an instance of the provider can be seen in.
SeenStates == {RunningState, Ptr([Code |-> Ptr(0)])}

\* Lines 113-120: what DescribeInstances answers, the instances being in the
\* given states.
DescribedInstances(states) ==
    LET sel == SelectSeq(cloud, HasClusterTag)
    IN [j \in 1..Len(sel) |->
          [InstanceType |-> Ptr(sel[j].InstanceType),
           PrivateIpAddress |-> Ptr(sel[j].PrivateIpAddress),
           PublicIpAddress |-> Nil,
           Tags |-> sel[j].Tags,
           State |-> states[j]]]

\* A call against the provider whose instances the goroutines tag.
SyncStartCloud ==
    \E states \in [1..Len(SelectSeq(cloud, HasClusterTag)) -> SeenStates] :
        SyncBegin(DescribedInstances(states))

InitLoop ==
    /\ SyncIdle
    /\ SpotIdle
    /\ config \in {c \in Configs : c.Provider = AWS /\ c.VolumeSize = <<"8", "0">>}
    /\ PriceIdle
    /\ priceHistory = <<>>

NextLoop ==
    \/ createSpotInstance
    \/ createSpotInstanceReturn
    \/ TaskStep
    \/ SyncStartCloud
    \/ SyncStep
    \/ SyncReturn

SpecLoop == InitLoop /\ [][NextLoop]_vars

\* The successful tag calls of goroutine t.
TaggedOk(t) == {k \in CallsOf(t, "CreateTags") : remote[t][k].result = "ok"}

\* The node names the goroutines have written so far.
GeneratedNames ==
    UNION {{remote[t][k].tags[1].Name : k \in TaggedOk(t)} : t \in 1..Len(remote)}

\* The instance of request i of call t is in the inventory of the pass,
\* running.
SeenRunning(t, i) ==
    \E j \in 1..Len(inventory) :
        /\ inventory[j].PrivateIpAddress = Ptr(PrivateIpOf(t, i))
        /\ IsRunning(inventory[j])

\* C16: a successful pass whose inventory holds, running, the instance of a
\* worker request that a goroutine tagged has that instance in Nodes under
\* the node name the goroutine generated; and Nodes never has a name that no
\* goroutine has written yet.
C16_ClosingTheLoop ==
    /\ (syncPc = "returned" /\ syncErr = NoErr) =>
          \A t \in 1..Len(remote) : \A k \in TaggedOk(t) :
             \A i \in 1..Len(tasks[t].spotRequests) :
                (/\ remote[t][k].resources[1] = Ptr(InstanceId(t, i))
                 /\ ~tasks[t].cfg.IsMaster
                 /\ SeenRunning(t, i))
                => LET name == remote[t][k].tags[1].Name
                   IN /\ name \in DOMAIN Nodes
                      /\ Nodes[name].PrivateIp = PrivateIpOf(t, i)
                      /\ Nodes[name].Role = RoleNode
    /\ DOMAIN Nodes \subseteq GeneratedNames

\* A first pass returned before any tagging and left Nodes empty; a second
\* pass, after two worker instances were tagged, has merged both.
C16_Witness ==
    /\ syncPc = "returned"
    /\ syncErr = NoErr
    /\ passes = 2
    /\ lastErr = NoErr
    /\ lastNodes = NoMachines
    /\ ~config.IsMaster
    /\ Cardinality(DOMAIN Nodes) = 2
    /\ DOMAIN Nodes = GeneratedNames

====
